---- MODULE Spec2Model ----
(***************************************************************************)
(* Model of infrastructure/lambda/email_processor.py: the Lambda handler   *)
(* that ingests e-mails (blob store, index table, per-day manifest) and    *)
(* forwards them by rule.  Several handler invocations run concurrently;   *)
(* every call to S3, DynamoDB or SES is one atomic step.                   *)
(*                                                                         *)
(* Strings that the code compares or parses (the ISO timestamps) are       *)
(* sequences of character codes, so that Python's string order is the      *)
(* order the model sorts by.  Dates are in January 2024; a date_str        *)
(* 'YYYY-MM-DD' is represented by its day of month.                        *)
(*                                                                         *)
(* Of an index item and a manifest entry the model keeps messageId,        *)
(* timestamp, date, s3_key and the subject (by its length; from and to are *)
(* copied the same way); last_updated and processed_at, which no step      *)
(* reads, are left out.  log and sends record, per invocation, what   *)
(* the logger and SES saw for the record being processed.                  *)
(***************************************************************************)
EXTENDS Integers, Sequences, FiniteSets, TLC

\* ------------------------------------------------------------------ bounds
\* Concurrent invocations of lambda_handler.
NumInvocations == 2
\* Largest number of Records in one event.
MaxRecords == 2
\* Largest number of records delivered in a run, over all events.
MaxMessages == 3
\* How many hours the wall clock may advance during a run.
MaxTicks == 1
\* How many calls to S3 and DynamoDB may fail during a run.
MaxFaults == 1

Inv == 1..NumInvocations

\* ------------------------------------------------------- character strings
\* str[k], two digits -> number
Num2(s, k) == (s[k] - 48) * 10 + (s[k + 1] - 48)
\* number -> two digits ("%02d")
Str2(n) == <<48 + (n \div 10), 48 + (n % 10)>>

\* Python's str.__lt__: lexicographic by code point, a proper prefix is less.
RECURSIVE StrLess(_, _)
StrLess(a, b) ==
    IF b = <<>> THEN FALSE
    ELSE IF a = <<>> THEN TRUE
    ELSE IF a[1] # b[1] THEN a[1] < b[1]
    ELSE StrLess(Tail(a), Tail(b))

\* str.endswith('Z')
EndsWithZ(s) == Len(s) > 0 /\ s[Len(s)] = 90

\* timestamp.replace('Z', '+00:00')   (a timestamp holds 'Z' only at its end)
RECURSIVE ReplaceZ(_)
ReplaceZ(s) ==
    IF s = <<>> THEN <<>>
    ELSE IF s[1] = 90 THEN <<43, 48, 48, 58, 48, 48>> \o ReplaceZ(Tail(s))
    ELSE <<s[1]>> \o ReplaceZ(Tail(s))

\* ------------------------------------------------------------- date-times
\* A datetime: day of January 2024, hour, and either a UTC offset in hours
\* (tz = "aware") or none (tz = "naive").  Minutes and seconds are zero.
DateTime(day, hour, tz, off) == [day |-> day, hour |-> hour, tz |-> tz, off |-> off]

\* datetime.isoformat(): 'YYYY-MM-DDTHH:MM:SS' then '+HH:MM' / '-HH:MM' when aware
IsoFormat(dt) ==
    <<50, 48, 50, 52, 45, 48, 49, 45>> \o Str2(dt.day) \o <<84>> \o Str2(dt.hour)
        \o <<58, 48, 48, 58, 48, 48>>
        \o (IF dt.tz = "aware"
            THEN <<IF dt.off < 0 THEN 45 ELSE 43>>
                 \o Str2(IF dt.off < 0 THEN -dt.off ELSE dt.off) \o <<58, 48, 48>>
            ELSE <<>>)

\* Skip an optional fraction '.ddd' at the head of s.
RECURSIVE SkipDigits(_)
SkipDigits(s) ==
    IF s # <<>> /\ s[1] >= 48 /\ s[1] <= 57 THEN SkipDigits(Tail(s)) ELSE s
SkipFraction(s) == IF s # <<>> /\ s[1] = 46 THEN SkipDigits(Tail(s)) ELSE s

\* datetime.fromisoformat(s)
FromIsoFormat(s) ==
    LET rest == SkipFraction(SubSeq(s, 20, Len(s)))
    IN  IF rest = <<>>
        THEN DateTime(Num2(s, 9), Num2(s, 12), "naive", 0)
        ELSE DateTime(Num2(s, 9), Num2(s, 12), "aware",
                      IF rest[1] = 45 THEN -Num2(rest, 2) ELSE Num2(rest, 2))

\* dt.strftime('%Y-%m-%d'): the calendar date of the datetime's own fields
\* (no conversion to UTC); year and month are fixed, so the day stands for it.
StrfDate(dt) == dt.day

\* datetime.utcnow() for the clock value now (hours since 2024-01-01T00:00Z)
UtcNow(clock) == DateTime(1 + (clock \div 24), clock % 24, "naive", 0)

\* ------------------------------------------------------------------ inputs
\* The raw messages lying under incoming/, by message id.  date is the Date
\* header: absent (''), present but not a date ("garbage"), or spelling the
\* date-time dt; to is the address part of the To header; subject is the
\* length of the Subject header in characters.
MessageIds == {"m1", "m2", "m3", "m4"}
DateHeader(kind, dt) == [kind |-> kind, dt |-> dt]
RawMessage(id) ==
    CASE id = "m1" -> [date |-> DateHeader("date", DateTime(2, 1, "aware", 5)),
                       to |-> "A@X.COM", subject |-> 12]
      [] id = "m2" -> [date |-> DateHeader("date", DateTime(2, 0, "aware", 0)),
                       to |-> "c@x.com", subject |-> 2000]
      [] id = "m3" -> [date |-> DateHeader("absent", DateTime(0, 0, "naive", 0)),
                       to |-> "e@x.com", subject |-> 12]
      [] OTHER     -> [date |-> DateHeader("garbage", DateTime(0, 0, "naive", 0)),
                       to |-> "z@x.com", subject |-> 12]

\* ses_mail['mail']['timestamp'] of the SES notification for a message:
\* '2024-01-01T09:00:00.000Z'
SesTimestamp(id) == IsoFormat(DateTime(1, 9, "naive", 0)) \o <<46, 48, 48, 48, 90>>

\* The records an event may hold: an SES notification, an S3 notification
\* for a key under incoming/ or elsewhere, or a record of neither shape.
Record(kind, id, prefix) == [kind |-> kind, id |-> id, prefix |-> prefix]
Records ==
    { Record("ses", "m1", "incoming/"), Record("ses", "m2", "incoming/"),
      Record("s3", "m3", "incoming/"), Record("ses", "m3", "incoming/"),
      Record("ses", "m4", "incoming/"),
      Record("s3", "m1", "other/"), Record("unknown", "", "") }

\* The values FORWARDING_RULES may be loaded with.  A pattern is the set of
\* lower-case addresses the regular expression matches at their start;
\* kind "bad" is a rule whose evaluation raises (an invalid expression, a
\* rule without a 'pattern' key).
Rule(kind, pattern, to) == [kind |-> kind, pattern |-> pattern, forward_to |-> to]
RuleConfigs ==
    { <<Rule("ok", {"a@x.com"}, "b@y.com"),
        Rule("ok", {"a@x.com", "c@x.com"}, "d@y.com"),
        Rule("ok", {"e@x.com"}, "f@y.com")>>,
      <<Rule("ok", {"a@x.com"}, "b@y.com"),
        Rule("ok", {"a@x.com", "c@x.com"}, "d@y.com"),
        Rule("bad", {}, ""),
        Rule("ok", {"e@x.com"}, "f@y.com")>> }

\* str.lower() on the addresses of the model
Lower(s) == IF s = "A@X.COM" THEN "a@x.com" ELSE s

\* First hour of the wall clock: 2024-01-01T23:00Z.
ClockValues == 23..(23 + MaxTicks)

\* Every date_str the inputs can lead to (the keys of the manifests).
Dates ==
    {StrfDate(RawMessage(id).date.dt) :
        id \in {m \in MessageIds : RawMessage(m).date.kind = "date"}}
    \cup {StrfDate(FromIsoFormat(ReplaceZ(SesTimestamp(id)))) : id \in MessageIds}
    \cup {StrfDate(UtcNow(c)) : c \in ClockValues}

\* ------------------------------------------------------------------- state
VARIABLES
    now,              \* the wall clock, hours since 2024-01-01T00:00Z
    FORWARDING_RULES, \* the rules loaded at import
    blobs,            \* S3: the keys processed/{date}/{id}.eml that exist
    blobMeta,         \* S3: the Metadata of each of these objects
    table,            \* DynamoDB: messageId -> item, or NoItem
    manifests,        \* S3: date -> manifest object, or NoSuchKey
    generation,       \* S3: date -> number of writes of the manifest object
    pc,               \* per invocation: where lambda_handler stands
    nrec,             \* per invocation: len(event['Records'])
    idx,              \* per invocation: index of the next record of the loop
    processed_count,  \* per invocation
    statusCode,       \* per invocation: the response, 0 while running
    msg,              \* per invocation: process_email's locals
    manifest,         \* per invocation: create_manifest_entry's manifest
    readGen,          \* per invocation: generation of the manifest when read
    log,              \* per invocation: what happened to the current record
    sends,            \* per invocation: send_raw_email calls for the record
    faults,           \* how many calls to a store have failed
    merged            \* (date, id) of every manifest write that succeeded

vars == <<now, FORWARDING_RULES, blobs, blobMeta, table, manifests, generation, pc, nrec,
          idx, processed_count, statusCode, msg, manifest, readGen, log, sends,
          faults, merged>>

stores == <<blobs, blobMeta, table, manifests, generation, merged>>
locals == <<msg, manifest, readGen>>

NoItem == [messageId |-> ""]
NoSuchKey == [date |-> 0]
NoMsg ==
    [message_id |-> "", timestamp |-> <<>>, date_str |-> 0, recipient |-> "",
     subject |-> 0]
EmptyManifest(date_str) == [emails |-> <<>>, date |-> date_str, email_count |-> 0]

Init ==
    /\ now = 23
    /\ FORWARDING_RULES \in RuleConfigs
    /\ blobs = {}
    /\ blobMeta = {}
    /\ table = [id \in MessageIds |-> NoItem]
    /\ manifests = [d \in Dates |-> NoSuchKey]
    /\ generation = [d \in Dates |-> 0]
    /\ pc = [i \in Inv |-> "idle"]
    /\ nrec = [i \in Inv |-> 0]
    /\ idx = [i \in Inv |-> 1]
    /\ processed_count = [i \in Inv |-> 0]
    /\ statusCode = [i \in Inv |-> 0]
    /\ msg = [i \in Inv |-> NoMsg]
    /\ manifest = [i \in Inv |-> NoSuchKey]
    /\ readGen = [i \in Inv |-> 0]
    /\ log = [i \in Inv |-> {}]
    /\ sends = [i \in Inv |-> <<>>]
    /\ faults = 0
    /\ merged = {}

\* ------------------------------------------------ process_email: metadata
\* email.utils.parsedate_to_datetime on a well-formed Date header
ParsedateToDatetime(header) == header.dt

\* ResolveTimestamp with the fallback normalised instead of left alone.
ResolveTimestampNormalised(header, timestamp) ==
    IF header.kind = "date" THEN IsoFormat(ParsedateToDatetime(header))
    ELSE ReplaceZ(timestamp)

\* The timestamp of the record: the Date header's, when there is one and it
\* parses; the timestamp handed in otherwise.
ResolveTimestamp(header, timestamp) ==
    IF header.kind = "date" THEN IsoFormat(ParsedateToDatetime(header))
    ELSE timestamp

\* date_str, the date the message is partitioned under
PartitionDate(timestamp) ==
    StrfDate(FromIsoFormat(IF EndsWithZ(timestamp) THEN ReplaceZ(timestamp)
                           ELSE timestamp))

\* processed_key = f"processed/{date_str}/{message_id}.eml"
ProcessedKey(date_str, message_id) == <<date_str, message_id>>

\* The bound of a header copied into the Metadata of the processed object.
MetadataLimit == 1000

\* len(subject[:1000]), for a subject of n characters
Truncated(n) == IF n > MetadataLimit THEN MetadataLimit ELSE n

\* The Metadata put_object stores with the processed object.
BlobMetadata(m) ==
    [key |-> ProcessedKey(m.date_str, m.message_id), messageId |-> m.message_id,
     subject |-> Truncated(m.subject), date |-> m.date_str]

\* MetadataItem with the key of the incoming object as s3_key.
MetadataItemIncomingKey(m) ==
    [messageId |-> m.message_id, timestamp |-> m.timestamp, date |-> m.date_str,
     subject |-> m.subject, s3_key |-> ProcessedKey(0, m.message_id)]

\* metadata_item, as far as the manifest reads it
MetadataItem(m) ==
    [messageId |-> m.message_id, timestamp |-> m.timestamp, date |-> m.date_str,
     subject |-> m.subject, s3_key |-> ProcessedKey(m.date_str, m.message_id)]

\* The timestamp each entry point hands to process_email.
EventTimestamp(r, clock) ==
    IF r.kind = "ses" THEN SesTimestamp(r.id)
    ELSE IsoFormat(UtcNow(clock)) \o <<90>>

\* process_email's locals for record r
StartMessage(r, clock) ==
    LET raw == RawMessage(r.id)
        ts == ResolveTimestamp(raw.date, EventTimestamp(r, clock))
    IN  [message_id |-> r.id, timestamp |-> ts, date_str |-> PartitionDate(ts),
         recipient |-> raw.to, subject |-> raw.subject]

\* --------------------------------------------------- create_manifest_entry
EmailEntry(message_id, metadata) ==
    [messageId |-> message_id, timestamp |-> metadata.timestamp,
     s3_key |-> metadata.s3_key, subject |-> metadata.subject]

\* Mutant: the entry with the same messageId is not removed before the append.
RemoveExistingKeepAll(emails, message_id) == emails

\* [e for e in manifest['emails'] if e.get('messageId') != message_id]
RemoveExisting(emails, message_id) ==
    SelectSeq(emails, LAMBDA e : e.messageId # message_id)

\* list.sort(key=timestamp, reverse=True): descending by the timestamp
\* strings, entries of equal key keeping their order (the sort is stable).
RECURSIVE InsertDescending(_, _)
InsertDescending(sorted, e) ==
    IF sorted = <<>> THEN <<e>>
    ELSE IF StrLess(sorted[1].timestamp, e.timestamp) THEN <<e>> \o sorted
    ELSE <<sorted[1]>> \o InsertDescending(Tail(sorted), e)

RECURSIVE SortInto(_, _)
SortInto(sorted, rest) ==
    IF rest = <<>> THEN sorted
    ELSE SortInto(InsertDescending(sorted, rest[1]), Tail(rest))

SortNewestFirst(emails) == SortInto(<<>>, emails)

\* MergeEntry with email_count taken before the entry is appended.
MergeEntryCountBefore(m, message_id, metadata) ==
    LET emails == RemoveExisting(m.emails, message_id)
                      \o <<EmailEntry(message_id, metadata)>>
    IN  [emails |-> SortNewestFirst(emails), date |-> m.date,
         email_count |-> Len(m.emails)]

\* The manifest that create_manifest_entry uploads.
MergeEntry(m, message_id, metadata) ==
    LET emails == RemoveExisting(m.emails, message_id)
                      \o <<EmailEntry(message_id, metadata)>>
    IN  [emails |-> SortNewestFirst(emails), date |-> m.date,
         email_count |-> Len(emails)]

\* ------------------------------------------------ forward_email_if_matched
\* re.match(rule['pattern'], recipient, re.IGNORECASE)
ReMatch(pattern, recipient) == Lower(recipient) \in pattern

\* Mutant: the loop does not break after the first matching rule.
RECURSIVE EvalRulesNoBreak(_, _)
EvalRulesNoBreak(rules, recipient) ==
    IF rules = <<>> THEN [targets |-> <<>>, raised |-> FALSE]
    ELSE IF rules[1].kind = "bad" THEN [targets |-> <<>>, raised |-> TRUE]
    ELSE LET rest == EvalRulesNoBreak(Tail(rules), recipient)
         IN  IF ReMatch(rules[1].pattern, recipient)
             THEN [targets |-> <<rules[1].forward_to>> \o rest.targets,
                   raised |-> rest.raised]
             ELSE rest

\* The loop over the rules: the destinations send_raw_email is called with,
\* and whether evaluating a rule raised.
RECURSIVE EvalRules(_, _)
EvalRules(rules, recipient) ==
    IF rules = <<>> THEN [targets |-> <<>>, raised |-> FALSE]
    ELSE IF rules[1].kind = "bad" THEN [targets |-> <<>>, raised |-> TRUE]
    ELSE IF ReMatch(rules[1].pattern, recipient)
         THEN [targets |-> <<rules[1].forward_to>>, raised |-> FALSE]
    ELSE EvalRules(Tail(rules), recipient)

\* ------------------------------------------------------ exception handlers
\* What each except clause does with the exception it catches.
\* Mutants: an except clause that re-raises, or that swallows.
ForwardExceptRaise == "raise"
CreateManifestExceptRaise == "raise"
ProcessEmailExceptSwallow == "swallow"

\* forward_email_if_matched, around send_raw_email
ForwardSendExcept == "swallow"
\* forward_email_if_matched, around the loop
ForwardExcept == "swallow"
\* create_manifest_entry
CreateManifestExcept == "swallow"
\* process_email
ProcessEmailExcept == "raise"
\* process_ses_email, process_s3_email
ProcessRecordExcept == "raise"
\* the statusCode of lambda_handler's except clause
LambdaHandlerExcept == 500
\* the statusCode of lambda_handler's normal return
LambdaHandlerOk == 200

\* ---------------------------------------------------------- lambda_handler
\* process_ses_email / process_s3_email returns to the loop of lambda_handler.
Returned(i) ==
    /\ pc' = [pc EXCEPT ![i] = "returned"]
    /\ UNCHANGED <<processed_count, idx, statusCode>>

\* An exception reaches lambda_handler's except clause: the loop is left.
Abort(i) ==
    /\ statusCode' = [statusCode EXCEPT ![i] = LambdaHandlerExcept]
    /\ pc' = [pc EXCEPT ![i] = "done"]
    /\ UNCHANGED <<processed_count, idx>>

\* An exception inside process_email's try block: logged and re-raised by
\* process_email, then by process_ses_email / process_s3_email.
Propagate(i) ==
    IF ProcessEmailExcept = "raise" /\ ProcessRecordExcept = "raise"
    THEN Abort(i) ELSE Returned(i)

Note(i, tags) == log' = [log EXCEPT ![i] = @ \cup tags]

\* The records delivered so far to invocations 1..k.
RECURSIVE Delivered(_)
Delivered(k) == IF k = 0 THEN 0 ELSE nrec[k] + Delivered(k - 1)

\* lambda_handler is invoked with an event of n records.  Invocations are
\* interchangeable, so they are numbered in the order they start.
Invoke(i) ==
    /\ pc[i] = "idle"
    /\ \A j \in Inv : j < i => pc[j] # "idle"
    /\ \E n \in 0..MaxRecords :
          /\ n + Delivered(NumInvocations) <= MaxMessages
          /\ nrec' = [nrec EXCEPT ![i] = n]
    /\ pc' = [pc EXCEPT ![i] = "loop"]
    /\ UNCHANGED <<now, FORWARDING_RULES, stores, locals, idx, processed_count,
                   statusCode, log, sends, faults>>

AtRecord(i) == pc[i] = "loop" /\ idx[i] <= nrec[i]

\* A record that is neither 'ses' nor 's3': a warning, not counted.
SkipUnknown(i) ==
    /\ AtRecord(i)
    /\ \E r \in Records : r.kind = "unknown"
    /\ idx' = [idx EXCEPT ![i] = @ + 1]
    /\ UNCHANGED <<now, FORWARDING_RULES, stores, locals, pc, nrec,
                   processed_count, statusCode, log, sends, faults>>

\* process_s3_email for a key outside incoming/: ignored, and it returns.
IgnoreS3(i) ==
    /\ AtRecord(i)
    /\ \E r \in Records : r.kind = "s3" /\ r.prefix # "incoming/"
    /\ Returned(i)
    /\ UNCHANGED <<now, FORWARDING_RULES, stores, locals, nrec, log, sends, faults>>

Fetchable(r) == r.kind \in {"ses", "s3"} /\ r.prefix = "incoming/"

\* download_and_parse_email returns None (the object is missing, the store
\* fails, the bytes do not parse): an error is logged, and process_ses_email
\* / process_s3_email returns.
DownloadFails(i) ==
    /\ faults < MaxFaults
    /\ AtRecord(i)
    /\ \E r \in Records :
          /\ Fetchable(r)
          /\ msg' = [msg EXCEPT ![i] = [NoMsg EXCEPT !.message_id = r.id]]
    /\ log' = [log EXCEPT ![i] = {"parse_err"}]
    /\ Returned(i)
    /\ faults' = faults + 1
    /\ UNCHANGED <<now, FORWARDING_RULES, stores, manifest, readGen, nrec, sends>>

\* download_and_parse_email returns the message; process_email derives the
\* metadata up to the first write.
StartProcess(i) ==
    /\ AtRecord(i)
    /\ \E r \in Records :
          /\ Fetchable(r)
          /\ msg' = [msg EXCEPT ![i] = StartMessage(r, now)]
    /\ pc' = [pc EXCEPT ![i] = "put_blob"]
    /\ UNCHANGED <<now, FORWARDING_RULES, stores, manifest, readGen, nrec, idx,
                   processed_count, statusCode, log, sends, faults>>

\* Back in the loop after process_ses_email / process_s3_email returned:
\* processed_count += 1, and the locals of the call are gone.
Counted(i) ==
    /\ pc[i] = "returned"
    /\ processed_count' = [processed_count EXCEPT ![i] = @ + 1]
    /\ idx' = [idx EXCEPT ![i] = @ + 1]
    /\ pc' = [pc EXCEPT ![i] = "loop"]
    /\ msg' = [msg EXCEPT ![i] = NoMsg]
    /\ manifest' = [manifest EXCEPT ![i] = NoSuchKey]
    /\ readGen' = [readGen EXCEPT ![i] = 0]
    /\ log' = [log EXCEPT ![i] = {}]
    /\ sends' = [sends EXCEPT ![i] = <<>>]
    /\ UNCHANGED <<now, FORWARDING_RULES, stores, nrec, statusCode, faults>>

\* s3.put_object(Key=processed_key, ...)
PutBlobOk(i) ==
    /\ pc[i] = "put_blob"
    /\ blobs' = blobs \cup {ProcessedKey(msg[i].date_str, msg[i].message_id)}
    /\ blobMeta' = {b \in blobMeta : b.key # BlobMetadata(msg[i]).key}
                       \cup {BlobMetadata(msg[i])}
    /\ Note(i, {"blob"})
    /\ pc' = [pc EXCEPT ![i] = "put_item"]
    /\ UNCHANGED <<now, FORWARDING_RULES, table, manifests, generation, merged,
                   locals, nrec, idx, processed_count, statusCode, sends, faults>>

PutBlobFails(i) ==
    /\ faults < MaxFaults
    /\ pc[i] = "put_blob"
    /\ Note(i, {"blob_err"})
    /\ faults' = faults + 1
    /\ Propagate(i)
    /\ UNCHANGED <<now, FORWARDING_RULES, stores, locals, nrec, sends>>

\* table.put_item(Item=metadata_item)
PutItemOk(i) ==
    /\ pc[i] = "put_item"
    /\ table' = [table EXCEPT ![msg[i].message_id] = MetadataItem(msg[i])]
    /\ Note(i, {"item"})
    /\ pc' = [pc EXCEPT ![i] = "get_manifest"]
    /\ UNCHANGED <<now, FORWARDING_RULES, blobs, blobMeta, manifests, generation,
                   merged, locals, nrec, idx, processed_count, statusCode, sends,
                   faults>>

PutItemFails(i) ==
    /\ faults < MaxFaults
    /\ pc[i] = "put_item"
    /\ Note(i, {"item_err"})
    /\ faults' = faults + 1
    /\ Propagate(i)
    /\ UNCHANGED <<now, FORWARDING_RULES, stores, locals, nrec, sends>>

\* s3.get_object(Key=manifest_key): the object, or the empty manifest when
\* there is none (NoSuchKey).
GetManifestOk(i) ==
    /\ pc[i] = "get_manifest"
    /\ LET d == msg[i].date_str
       IN  /\ manifest' = [manifest EXCEPT ![i] =
                  IF manifests[d] = NoSuchKey THEN EmptyManifest(d) ELSE manifests[d]]
           /\ readGen' = [readGen EXCEPT ![i] = generation[d]]
    /\ Note(i, {"mget"})
    /\ pc' = [pc EXCEPT ![i] = "put_manifest"]
    /\ UNCHANGED <<now, FORWARDING_RULES, stores, msg, nrec, idx, processed_count,
                   statusCode, sends, faults>>

\* get_object or json.loads raises anything else: a warning, and the empty
\* manifest.
GetManifestFails(i) ==
    /\ faults < MaxFaults
    /\ pc[i] = "get_manifest"
    /\ LET d == msg[i].date_str
       IN  /\ manifest' = [manifest EXCEPT ![i] = EmptyManifest(d)]
           /\ readGen' = [readGen EXCEPT ![i] = generation[d]]
    /\ Note(i, {"mget_err"})
    /\ faults' = faults + 1
    /\ pc' = [pc EXCEPT ![i] = "put_manifest"]
    /\ UNCHANGED <<now, FORWARDING_RULES, stores, msg, nrec, idx, processed_count,
                   statusCode, sends>>

\* The merge, and s3.put_object(Key=manifest_key, ...): unconditional.
PutManifestOk(i) ==
    /\ pc[i] = "put_manifest"
    /\ LET d == msg[i].date_str
           id == msg[i].message_id
       IN  /\ manifests' = [manifests EXCEPT ![d] =
                  MergeEntry(manifest[i], id, MetadataItem(msg[i]))]
           /\ generation' = [generation EXCEPT ![d] = @ + 1]
           /\ merged' = merged \cup {<<d, id>>}
    /\ Note(i, {"mput"})
    /\ pc' = [pc EXCEPT ![i] = "forward"]
    /\ UNCHANGED <<now, FORWARDING_RULES, blobs, blobMeta, table, locals, nrec,
                   idx, processed_count, statusCode, sends, faults>>

PutManifestFails(i) ==
    /\ faults < MaxFaults
    /\ pc[i] = "put_manifest"
    /\ Note(i, {"mput_err"})
    /\ faults' = faults + 1
    /\ IF CreateManifestExcept = "swallow"
       THEN /\ pc' = [pc EXCEPT ![i] = "forward"]
            /\ UNCHANGED <<idx, processed_count, statusCode>>
       ELSE Propagate(i)
    /\ UNCHANGED <<now, FORWARDING_RULES, stores, locals, nrec, sends>>

\* forward_email_if_matched, every send_raw_email returning ok or raising;
\* then process_email returns.
Forward(i, ok) ==
    /\ pc[i] = "forward"
    /\ LET ev == EvalRules(FORWARDING_RULES, msg[i].recipient)
           sendRaised == ev.targets # <<>> /\ ~ok /\ ForwardSendExcept = "raise"
           escaped == (ev.raised \/ sendRaised) /\ ForwardExcept = "raise"
       IN  /\ sends' = [sends EXCEPT ![i] =
                  [k \in 1..Len(ev.targets) |-> [to |-> ev.targets[k], ok |-> ok]]]
           /\ Note(i, {"fwd"} \cup (IF ev.raised THEN {"rules_err"} ELSE {})
                     \cup (IF ev.targets # <<>> /\ ~ok THEN {"send_err"} ELSE {}))
           /\ IF escaped THEN Propagate(i) ELSE Returned(i)
    /\ UNCHANGED <<now, FORWARDING_RULES, stores, locals, nrec, faults>>

ForwardOk(i) == Forward(i, TRUE)

ForwardSendFails(i) ==
    /\ EvalRules(FORWARDING_RULES, msg[i].recipient).targets # <<>>
    /\ Forward(i, FALSE)

\* The loop is over: the response.
Return(i) ==
    /\ pc[i] = "loop"
    /\ idx[i] > nrec[i]
    /\ statusCode' = [statusCode EXCEPT ![i] = LambdaHandlerOk]
    /\ pc' = [pc EXCEPT ![i] = "done"]
    /\ UNCHANGED <<now, FORWARDING_RULES, stores, locals, nrec, idx,
                   processed_count, log, sends, faults>>

\* The wall clock advances by an hour.
Tick ==
    /\ now < 23 + MaxTicks
    /\ now' = now + 1
    /\ UNCHANGED <<FORWARDING_RULES, stores, locals, pc, nrec, idx,
                   processed_count, statusCode, log, sends, faults>>

Next ==
    \/ Tick
    \/ \E i \in Inv :
          \/ Invoke(i)
          \/ SkipUnknown(i)
          \/ IgnoreS3(i)
          \/ DownloadFails(i)
          \/ StartProcess(i)
          \/ Counted(i)
          \/ PutBlobOk(i)
          \/ PutBlobFails(i)
          \/ PutItemOk(i)
          \/ PutItemFails(i)
          \/ GetManifestOk(i)
          \/ GetManifestFails(i)
          \/ PutManifestOk(i)
          \/ PutManifestFails(i)
          \/ ForwardOk(i)
          \/ ForwardSendFails(i)
          \/ Return(i)

Spec == Init /\ [][Next]_vars

\* ------------------------------------------------------------------ claims
Ids(m) == {m.emails[k].messageId : k \in 1..Len(m.emails)}
Stored(d) == manifests[d] # NoSuchKey
Quiescent == \A i \in Inv : pc[i] \in {"idle", "done"}
BlobStored(i) == ProcessedKey(msg[i].date_str, msg[i].message_id) \in blobs
ItemStored(i) == table[msg[i].message_id] # NoItem

\* The point in time a timestamp string denotes, in hours since
\* 2024-01-01T00:00Z (a timestamp without offset counts as UTC).
Instant(timestamp) ==
    LET dt == FromIsoFormat(IF EndsWithZ(timestamp) THEN ReplaceZ(timestamp)
                            ELSE timestamp)
    IN  (dt.day - 1) * 24 + dt.hour - dt.off

\* C1: no lost updates. When every invocation has finished and no store call
\* has failed, the manifest of each date holds an entry for every message
\* whose create_manifest_entry wrote to it.
NoLostUpdates ==
    (Quiescent /\ faults = 0) =>
        \A p \in merged : Stored(p[1]) /\ p[2] \in Ids(manifests[p[1]])

\* C2: every stored manifest holds at most one entry per messageId.
OneEntryPerMessageId ==
    \A d \in Dates : Stored(d) =>
        \A j, k \in 1..Len(manifests[d].emails) :
            manifests[d].emails[j].messageId = manifests[d].emails[k].messageId
                => j = k

\* C2 witness: an invocation has re-ingested a message whose id was already
\* in the manifest it read, and the stored manifest holds the id once.
ReingestedWitness ==
    \E i \in Inv :
        /\ pc[i] = "forward"
        /\ "mput" \in log[i]
        /\ msg[i].message_id \in Ids(manifest[i])
        /\ Len(manifest[i].emails) >= 2
        /\ Stored(msg[i].date_str)
        /\ generation[msg[i].date_str] = readGen[i] + 1
        /\ Len(manifests[msg[i].date_str].emails) = Len(manifest[i].emails)

\* C3: idempotence. After one invocation has worked through its batch alone
\* and without store errors, every ingested message id has exactly one
\* processed blob and exactly one manifest entry over all dates.
IdempotentIngestion ==
    (/\ pc[1] = "done"
     /\ \A j \in Inv : j # 1 => pc[j] = "idle"
     /\ faults = 0) =>
        \A id \in MessageIds : table[id] # NoItem =>
            /\ Cardinality({d \in Dates : ProcessedKey(d, id) \in blobs}) = 1
            /\ Cardinality({d \in Dates : Stored(d) /\ id \in Ids(manifests[d])}) = 1

\* C4: every stored manifest lists its entries newest point in time first
\* (stated here for the runs in which no store call fails).
SortedByInstant ==
    \A d \in Dates : (faults = 0 /\ Stored(d)) =>
        \A j, k \in 1..Len(manifests[d].emails) :
            j < k => Instant(manifests[d].emails[j].timestamp)
                         >= Instant(manifests[d].emails[k].timestamp)

\* C5: a manifest write takes effect only if the object was not written
\* between this invocation's read and its write.
ConditionalWrite ==
    [][\A i \in Inv :
          (/\ pc[i] = "put_manifest"
           /\ pc'[i] # "put_manifest"
           /\ generation[msg[i].date_str] # readGen[i])
              => manifests' = manifests]_vars

\* C6: a failed manifest read or write is contained. The record goes on to
\* the forwarding step and process_email returns, the response is not a
\* failure, and the blob and the index record stay stored; a failure
\* response comes only from a failed blob or index write.
ManifestFailureContained ==
    \A i \in Inv :
        /\ (log[i] \cap {"mget_err", "mput_err"} # {}) =>
             (/\ pc[i] \in {"put_manifest", "forward", "returned"}
              /\ ("mput_err" \in log[i] => pc[i] \in {"forward", "returned"})
              /\ (pc[i] = "returned" => "fwd" \in log[i])
              /\ statusCode[i] = 0
              /\ BlobStored(i) /\ ItemStored(i))
        /\ (statusCode[i] = 500 =>
              log[i] \cap {"blob_err", "item_err"} # {})

\* C6 witness: process_email has returned for a record whose manifest write
\* failed.
ManifestFailureWitness ==
    \E i \in Inv : pc[i] = "returned" /\ "mput_err" \in log[i] /\ "fwd" \in log[i]

\* C7: a failed blob or index write is fatal to the message. The handler
\* answers 500 and no later stage has run for the record.
StoreFailureFatal ==
    \A i \in Inv :
        (log[i] \cap {"blob_err", "item_err"} # {}) =>
            /\ pc[i] = "done"
            /\ statusCode[i] = 500
            /\ ("blob_err" \in log[i] => "item" \notin log[i])
            /\ log[i] \cap {"mget", "mget_err", "mput", "mput_err", "fwd"} = {}
            /\ sends[i] = <<>>

\* C7 witness: the index write of a record has failed after its blob write.
StoreFailureWitness ==
    \E i \in Inv : "item_err" \in log[i] /\ "blob" \in log[i] /\ pc[i] = "done"

\* C8: batch isolation. When the handler has returned, every record of its
\* batch has been taken up, also those after a record that failed.
BatchIsolation ==
    \A i \in Inv : pc[i] = "done" => idx[i] > nrec[i]

\* The rules whose pattern matches the recipient, by position.
Matching(rules, recipient) ==
    {k \in 1..Len(rules) :
        rules[k].kind = "ok" /\ Lower(recipient) \in rules[k].pattern}
First(S) == CHOOSE k \in S : \A j \in S : k <= j

\* C9 as stated: after the forwarding step, send_raw_email has been called
\* exactly once, for the first matching rule, when a rule matches, and not
\* at all when none does.
FirstMatchForwarded ==
    \A i \in Inv : "fwd" \in log[i] =>
        LET M == Matching(FORWARDING_RULES, msg[i].recipient)
        IN  IF M # {}
            THEN /\ Len(sends[i]) = 1
                 /\ sends[i][1].to = FORWARDING_RULES[First(M)].forward_to
            ELSE sends[i] = <<>>

\* C9 amended: send_raw_email is called at most once; exactly once, for the
\* first matching rule, when a rule matches and no rule before it raises on
\* evaluation; not at all otherwise.
ForwardAtMostOnce ==
    \A i \in Inv : "fwd" \in log[i] =>
        LET M == Matching(FORWARDING_RULES, msg[i].recipient)
            clean == M # {} /\ \A k \in 1..First(M) : FORWARDING_RULES[k].kind = "ok"
        IN  IF clean
            THEN /\ Len(sends[i]) = 1
                 /\ sends[i][1].to = FORWARDING_RULES[First(M)].forward_to
            ELSE sends[i] = <<>>

\* C9 witness: two rules match the recipient, the send for the first one
\* failed, and there was no other send.
FirstMatchWitness ==
    \E i \in Inv :
        /\ "fwd" \in log[i]
        /\ "send_err" \in log[i]
        /\ Cardinality(Matching(FORWARDING_RULES, msg[i].recipient)) >= 2
        /\ Len(sends[i]) = 1

\* C10: the forwarding step, whatever fails in it, ends with process_email
\* returning normally, calls send_raw_email at most once, and leaves the
\* blobs, the index and the manifests as they were.
ForwardingFailureContained ==
    [][\A i \in Inv :
          (pc[i] = "forward" /\ pc'[i] # "forward") =>
              /\ pc'[i] = "returned"
              /\ statusCode'[i] = statusCode[i]
              /\ Len(sends'[i]) <= 1
              /\ blobs' = blobs /\ table' = table /\ manifests' = manifests
              /\ BlobStored(i) /\ ItemStored(i)]_vars

\* C10 witness: process_email has returned for one record although
\* evaluating the rules raised, and for another although the send failed.
ForwardingFailureWitness ==
    \E i, j \in Inv :
        /\ pc[i] = "returned" /\ "rules_err" \in log[i]
        /\ pc[j] = "returned" /\ "send_err" \in log[j]

\* Invocation i is inside process_email for a message.
InProcess(i) ==
    pc[i] \in {"put_blob", "put_item", "get_manifest", "put_manifest", "forward"}
        \/ (pc[i] = "returned" /\ "fwd" \in log[i])

\* C11: a message whose Date header is present but does not parse keeps the
\* timestamp of the event, character for character, as its timestamp, its
\* partition date is the date written in that timestamp, and when no store
\* call fails process_email returns with the blob, the index record and the
\* manifest entry written and the handler has not turned to its error path.
DateFallback ==
    \A i \in Inv :
        (InProcess(i) /\ RawMessage(msg[i].message_id).date.kind = "garbage") =>
            /\ msg[i].timestamp = SesTimestamp(msg[i].message_id)
            /\ msg[i].date_str = Num2(SesTimestamp(msg[i].message_id), 9)
            /\ faults = 0 => statusCode[i] # LambdaHandlerExcept
            /\ (faults = 0 /\ pc[i] = "returned") =>
                  /\ BlobStored(i) /\ ItemStored(i)
                  /\ table[msg[i].message_id].timestamp
                         = SesTimestamp(msg[i].message_id)
                  /\ <<msg[i].date_str, msg[i].message_id>> \in merged

\* C11 witness: process_email has returned for the message with the
\* unparseable Date header, all three writes done.
DateFallbackWitness ==
    \E i \in Inv :
        /\ pc[i] = "returned" /\ "fwd" \in log[i] /\ "mput" \in log[i]
        /\ RawMessage(msg[i].message_id).date.kind = "garbage"
        /\ BlobStored(i) /\ ItemStored(i)

\* C12: every persisted copy of a subject, in the Metadata of a processed
\* object, in an index record and in a manifest entry, holds at most 1000
\* characters.
TruncatedEverywhere ==
    /\ \A b \in blobMeta : b.subject <= MetadataLimit
    /\ \A id \in MessageIds :
          table[id] # NoItem => table[id].subject <= MetadataLimit
    /\ \A d \in Dates :
          Stored(d) =>
              \A k \in 1..Len(manifests[d].emails) :
                  manifests[d].emails[k].subject <= MetadataLimit

\* The order of message ids as strings.
IdRank(id) ==
    CASE id = "m1" -> 1 [] id = "m2" -> 2 [] id = "m3" -> 3 [] OTHER -> 4

\* C13: in every stored manifest (here: while no store call has failed),
\* entries with equal timestamp stand in ascending order of messageId.
TieBreakAscending ==
    \A d \in Dates :
        (Stored(d) /\ faults = 0) =>
            \A k \in 1..(Len(manifests[d].emails) - 1) :
                manifests[d].emails[k].timestamp
                        = manifests[d].emails[k + 1].timestamp
                    => IdRank(manifests[d].emails[k].messageId)
                           < IdRank(manifests[d].emails[k + 1].messageId)

\* C14: a manifest write that is in conflict (the object was written since
\* this invocation read it) and that the store does not fail sends the
\* invocation back to read the manifest again (here: in runs where no
\* store call has failed before).
RetryOnConflict ==
    [][\A i \in Inv :
          (/\ faults = 0
           /\ pc[i] = "put_manifest"
           /\ pc'[i] # "put_manifest"
           /\ "mput_err" \notin log'[i]
           /\ generation[msg[i].date_str] # readGen[i])
              => pc'[i] = "get_manifest"]_vars

Entries(m) == {m.emails[k] : k \in 1..Len(m.emails)}

\* C15: when a manifest object exists and has not been written since this
\* invocation's read of it (successful or failed), the manifest the
\* invocation writes contains every stored entry but the one with the new
\* entry's id.
KeepsStoredEntries ==
    [][\A i \in Inv :
          (/\ pc[i] = "put_manifest"
           /\ pc'[i] = "forward"
           /\ "mput" \in log'[i]
           /\ Stored(msg[i].date_str)
           /\ generation[msg[i].date_str] = readGen[i])
              => \A e \in Entries(manifests[msg[i].date_str]) :
                     e.messageId # msg[i].message_id
                         => e \in Entries(manifests'[msg[i].date_str])]_vars

\* C16: every stored manifest is self-consistent, whatever the other
\* invocations are in the middle of (an invocation that stops between its
\* read and its write takes no further step): email_count is the number of
\* entries, and date is the date of the key the object is stored under.
ManifestSelfConsistent ==
    \A d \in Dates :
        Stored(d) =>
            /\ manifests[d].email_count = Len(manifests[d].emails)
            /\ manifests[d].date = d

\* C16 witness: a manifest with two entries is stored while an invocation
\* stands between its read of that manifest and its write, and the object
\* has been written since that read.
ManifestSelfConsistentWitness ==
    \E i \in Inv :
        /\ pc[i] = "put_manifest"
        /\ Stored(msg[i].date_str)
        /\ generation[msg[i].date_str] > readGen[i]
        /\ manifests[msg[i].date_str].email_count = 2

\* C17: the partition date of a message in process_email is the calendar
\* date, in UTC, of the instant its resolved timestamp denotes.
PartitionDateIsUtc ==
    \A i \in Inv :
        InProcess(i) => msg[i].date_str = 1 + (Instant(msg[i].timestamp) \div 24)

\* C18: a record whose download or parse failed has written no blob, no
\* index record and no manifest entry, and lambda_handler does not count
\* it among the processed e-mails.
ParseFailureNotCounted ==
    [][\A i \in Inv :
          (pc[i] = "returned" /\ "parse_err" \in log[i]) =>
              /\ log[i] = {"parse_err"}
              /\ processed_count'[i] = processed_count[i]]_vars

\* C19: every entry of a stored manifest names a processed blob that
\* exists, under the manifest's own date, and a message whose index record
\* exists; and for the record an invocation is processing, the blob write
\* comes before the index write, that before the manifest write, and that
\* before any forwarding send.
StageOrdering ==
    /\ \A d \in Dates :
          Stored(d) =>
              \A e \in Entries(manifests[d]) :
                  /\ e.s3_key \in blobs
                  /\ e.s3_key = ProcessedKey(d, e.messageId)
                  /\ table[e.messageId] # NoItem
    /\ \A i \in Inv :
          /\ "item" \in log[i] => "blob" \in log[i] /\ BlobStored(i)
          /\ "mput" \in log[i] => "item" \in log[i] /\ ItemStored(i)
          /\ sends[i] # <<>> =>
                /\ "item" \in log[i]
                /\ log[i] \cap {"mput", "mput_err"} # {}

\* C19 witness: a manifest with two entries is stored, and an invocation
\* has sent a forward for a record whose manifest entry it wrote.
StageOrderingWitness ==
    /\ \E d \in Dates : Stored(d) /\ Len(manifests[d].emails) = 2
    /\ \E i \in Inv : sends[i] # <<>> /\ "mput" \in log[i]

\* C20: after one invocation has worked through its batch alone and without
\* store errors, the manifest of each date lists exactly the message ids
\* whose latest ingestion (the one the index record is from) resolved to
\* that date.
SequentialCompleteness ==
    (/\ pc[1] = "done"
     /\ \A j \in Inv : j # 1 => pc[j] = "idle"
     /\ faults = 0) =>
        \A d \in Dates :
            (IF Stored(d) THEN Ids(manifests[d]) ELSE {})
                = {id \in MessageIds : table[id] # NoItem /\ table[id].date = d}

====
